---------------------------- MODULE Spec2Model ----------------------------
(***************************************************************************)
(* Model of the financial-planner backend core:                            *)
(*   - the sliding-window login-attempt limiter (utils/rateLimiter.js),    *)
(*   - the login / MFA verification handlers (controllers/authController), *)
(*   - the savings-goal deposit optimizer (controllers/goalController).    *)
(*                                                                         *)
(* Time is in milliseconds, as Date.now() gives it.  Amounts, months and   *)
(* rates of the optimizer are in hundredths (100 = 1.00), so that 0.01 and *)
(* 1.5 are integers of the model.                                          *)
(***************************************************************************)
EXTENDS Integers, Sequences, FiniteSets, TLC

VARIABLES
    clock,          \* Date.now(), ms
    ticks,          \* number of clock advances so far (bounds the model)
    loginAttempts,  \* rateLimiter.js: Map email -> queue of timestamps
    ret,            \* the last checkRateLimit call: [email, now, ok, after]
    admitted,       \* history: per email, the clock readings of the calls that returned true
    refusals,       \* history: per email, the calls refused since its last admission
    users,          \* the User collection: email -> document
    handlers,       \* the locals of the request handlers of authController.js in flight
    resp,           \* the last response a handler sent
    body,           \* goalController.js: req.body of calculateRequiredDeposit
    goalPc,         \* where calculateRequiredDeposit is: "validate", "loop", "done"
    low,            \* binary search: numerator of low, over 2^iterations
    high,           \* binary search: numerator of high, over 2^iterations
    mid,            \* binary search: numerator of mid, over 2^iterations, or undefined
    iterations,     \* binary search: iterations
    finalProjection, \* binary search: finalProjection
    simulations,    \* number of simulateInvestment runs so far
    goalRes,        \* the response of calculateRequiredDeposit
    goals,          \* the Goal collection: a set of documents
    nextGoalId,     \* the _id the next saved Goal document gets
    goalReqs,       \* the locals of the requests of goalDatabaseController.js in flight
    storeRes,       \* the last response of a goal database route
    localStorage,   \* the browser: localStorage items authToken and authEmail
    url             \* the browser: the path of the activated route

limiterVars == <<clock, ticks, loginAttempts, ret, admitted, refusals>>

authVars == <<users, handlers, resp>>

goalVars == <<body, goalPc, low, high, mid, iterations, finalProjection,
              simulations, goalRes>>

vars == <<clock, ticks, loginAttempts, ret, admitted, refusals,
          users, handlers, resp,
          body, goalPc, low, high, mid, iterations, finalProjection,
          simulations, goalRes,
          goals, nextGoalId, goalReqs, storeRes,
          localStorage, url>>

storeVars == <<goals, nextGoalId, goalReqs, storeRes>>

frontVars == <<localStorage, url>>

(* what the limiter and the auth handlers leave alone *)
outsideAuth == <<goalVars, storeVars, frontVars>>

(* what calculateRequiredDeposit leaves alone *)
outsideGoal == <<limiterVars, authVars, storeVars, frontVars>>

(* what the goal database routes leave alone *)
outsideStore == <<limiterVars, authVars, goalVars, frontVars>>

(* what the browser leaves alone *)
outsideFront == <<limiterVars, authVars, goalVars, storeVars>>

----------------------------------------------------------------------------
(* Bounds of the model *)

MaxTicks == 3

MaxAdmitted == 7

MaxRefusals == 2

MaxAuthTicks == 1

MaxAuthLogins == 2

MaxLoginAdmitted == 6

(* goal amounts are 0.01 and 1.00 .. MaxGoal.00; months are 1 .. MaxMonths *)
MaxGoal == 5

MaxMonths == 3

(* without interest the amounts stay small, so the months go further: goal  *)
(* amounts 1.00 .. MaxFlatGoal.00 over 1 .. MaxFlatMonths months at rate 0  *)
MaxFlatGoal == 1

MaxFlatMonths == 16

(* on doubles: goal amounts up to 2^MaxGoalExp, and the iteration counter   *)
(* of the model counts to MaxIterations and stays there                     *)
MaxGoalExp == 47

MaxIterations == 56

(* registrations and logins over time: MaxSeed + 1 generated secrets, up to *)
(* MaxTotpTicks clock steps and MaxTotpLogins admitted logins               *)
MaxSeed == 3

MaxTotpTicks == 2

MaxTotpLogins == 2

(* goal database routes: documents saved and clock advances *)
MaxGoals == 2

MaxStoreTicks == 1

(* the request handlers that can be in flight at once *)
Handlers == {"h1", "h2"}

(* Clock steps: 1 ms and one millisecond less than the window, so that the *)
(* readings 59999, 60000 and 60001 ms after an attempt are all reached.    *)
Deltas == {1, 59999}

(* Clock steps while request handlers run: one TOTP step in SpecAuth, just  *)
(* over one limiter window in SpecLogin                                     *)
AuthDeltas == {30000}

LoginDeltas == {60001}

(* Clock steps when the wall clock is corrected between calls of the        *)
(* limiter: forward by just over a window, backward by a millisecond        *)
SkewForward == {60001}

SkewBackward == {1}

(* Clock steps between calls of generateTOTP: a second, and what then is    *)
(* left of a TOTP window                                                    *)
TotpDeltas == {1000, 29000, 30000}

Emails == {"a@x", "b@x"}

Passwords == {"pw", "guess"}

(* the BASE32 secret of the registered user *)
SecretA == <<"J", "B", "S", "W", "Y", "3", "D", "P">>

----------------------------------------------------------------------------
(* utils/rateLimiter.js *)

MAX_ATTEMPTS == 5

WINDOW_MS == 60 * 1000

NoCall == [email |-> "", now |-> 0, ok |-> FALSE, after |-> 0]

(* if (!loginAttempts.has(email)) loginAttempts.set(email, []) *)
GetOrCreate(m, email) ==
    IF email \in DOMAIN m
    THEN m
    ELSE [e \in DOMAIN m \cup {email} |-> IF e = email THEN <<>> ELSE m[e]]

(* a mutant: nothing is ever evicted *)
EvictNever(attempts, now) == attempts

(* a mutant: "if" instead of "while", at most one timestamp is evicted *)
EvictOnce(attempts, now) ==
    IF Len(attempts) > 0 /\ now - attempts[1] > WINDOW_MS
    THEN Tail(attempts)
    ELSE attempts

(* while (attempts.length > 0 && now - attempts[0] > WINDOW_MS) attempts.shift() *)
RECURSIVE Evict(_, _)
Evict(attempts, now) ==
    IF Len(attempts) > 0 /\ now - attempts[1] > WINDOW_MS
    THEN Evict(Tail(attempts), now)
    ELSE attempts

(* a mutant: the comparison is > instead of >= *)
ExceededOffByOne(attempts) == Len(attempts) > MAX_ATTEMPTS

(* if (attempts.length >= MAX_ATTEMPTS) return false *)
Exceeded(attempts) == Len(attempts) >= MAX_ATTEMPTS

(* a mutant: the attempt is recorded before the limit is tested *)
RecordedAlways(attempts, now) == Append(attempts, now)

(* a mutant: the decision is taken and the recording is left for later *)
RecordedNever(attempts, now) == attempts

(* attempts.push(now), reached only when the limit is not exceeded *)
Recorded(attempts, now) ==
    IF Exceeded(attempts) THEN attempts ELSE Append(attempts, now)

(* a mutant: one array of timestamps serves every identity *)
LimiterMapShared(m, email, now) ==
    [e \in DOMAIN GetOrCreate(m, email) |->
        Recorded(Evict(GetOrCreate(m, email)[email], now), now)]

(* the map after checkRateLimit(email) called at clock reading now *)
LimiterMap(m, email, now) ==
    [GetOrCreate(m, email) EXCEPT
        ![email] = Recorded(Evict(GetOrCreate(m, email)[email], now), now)]

(* the value checkRateLimit(email) returns at clock reading now *)
LimiterRet(m, email, now) ==
    ~Exceeded(Evict(GetOrCreate(m, email)[email], now))

RECURSIVE TotalLen(_, _)
TotalLen(f, S) ==
    IF S = {} THEN 0
    ELSE LET e == CHOOSE x \in S : TRUE IN Len(f[e]) + TotalLen(f, S \ {e})

TotalAdmitted == TotalLen(admitted, Emails)

(* one run of checkRateLimit(email): it has no await, so it is one step *)
CallLimiter(email) ==
    /\ loginAttempts' = LimiterMap(loginAttempts, email, clock)
    /\ ret' = [email |-> email, now |-> clock,
               ok |-> LimiterRet(loginAttempts, email, clock),
               after |-> refusals[email]]
    /\ admitted' = IF LimiterRet(loginAttempts, email, clock)
                   THEN [admitted EXCEPT ![email] = Append(@, clock)]
                   ELSE admitted
    /\ refusals' = IF LimiterRet(loginAttempts, email, clock)
                   THEN [refusals EXCEPT ![email] = 0]
                   ELSE [refusals EXCEPT ![email] = @ + 1]

(* the model stops calling the limiter after MaxAdmitted admissions, and   *)
(* for an email after MaxRefusals successive refusals, until it is admitted *)
LimiterCallsLeft(email) ==
    /\ TotalAdmitted < MaxAdmitted
    /\ refusals[email] < MaxRefusals \/ LimiterRet(loginAttempts, email, clock)

(* export function checkRateLimit(email), called directly *)
CheckRateLimit(email) ==
    /\ LimiterCallsLeft(email)
    /\ CallLimiter(email)
    /\ UNCHANGED <<clock, ticks>>
    /\ UNCHANGED authVars
    /\ UNCHANGED outsideAuth

(* wall-clock time passes *)
Tick(d) ==
    /\ clock' = clock + d
    /\ ticks' = ticks + 1
    /\ UNCHANGED <<loginAttempts, ret, admitted, refusals>>
    /\ UNCHANGED authVars
    /\ UNCHANGED outsideAuth

(* wall-clock time passes between calls of the limiter *)
Advance(d) ==
    /\ ticks < MaxTicks
    /\ Tick(d)

----------------------------------------------------------------------------
(* utils/totp.js: generateTOTP *)

(* The BASE32 alphabet of RFC 4648; a text is a sequence of its characters *)
B32Alphabet ==
    << "A", "B", "C", "D", "E", "F", "G", "H", "I", "J", "K", "L", "M",
       "N", "O", "P", "Q", "R", "S", "T", "U", "V", "W", "X", "Y", "Z",
       "2", "3", "4", "5", "6", "7" >>

B32Value(c) == (CHOOSE i \in 1..Len(B32Alphabet) : B32Alphabet[i] = c) - 1

RECURSIVE Pow2(_)
Pow2(n) == IF n = 0 THEN 1 ELSE 2 * Pow2(n - 1)

(* base32.decode: 5 bits a character, a byte out for every 8 bits gathered; *)
(* acc holds the nbits bits not yet written                                 *)
RECURSIVE B32DecodeFrom(_, _, _, _)
B32DecodeFrom(text, i, acc, nbits) ==
    IF i > Len(text)
    THEN <<>>
    ELSE LET acc2 == acc * 32 + B32Value(text[i])
             n2   == nbits + 5
         IN  IF n2 >= 8
             THEN <<acc2 \div Pow2(n2 - 8)>>
                    \o B32DecodeFrom(text, i + 1, acc2 % Pow2(n2 - 8), n2 - 8)
             ELSE B32DecodeFrom(text, i + 1, acc2, n2)

Base32Decode(text) == B32DecodeFrom(text, 1, 0, 0)

(* base32.encode: 8 bits a byte, a character out for every 5 bits gathered, *)
(* the last character filled up with zero bits; acc holds the nbits bits    *)
(* not yet written                                                          *)
RECURSIVE B32EncodeFrom(_, _, _, _)
B32EncodeFrom(bytes, i, acc, nbits) ==
    IF i > Len(bytes)
    THEN IF nbits = 0 THEN <<>> ELSE <<B32Alphabet[acc * Pow2(5 - nbits) + 1]>>
    ELSE LET acc2 == acc * 256 + bytes[i]
             n2   == nbits + 8
         IN  IF n2 >= 10
             THEN <<B32Alphabet[acc2 \div Pow2(n2 - 5) + 1],
                    B32Alphabet[((acc2 \div Pow2(n2 - 10)) % 32) + 1]>>
                    \o B32EncodeFrom(bytes, i + 1, acc2 % Pow2(n2 - 10), n2 - 10)
             ELSE <<B32Alphabet[acc2 \div Pow2(n2 - 5) + 1]>>
                    \o B32EncodeFrom(bytes, i + 1, acc2 % Pow2(n2 - 5), n2 - 5)

(* the text is filled up with "=" to a multiple of 8 characters *)
Base32Encode(bytes) ==
    LET text == B32EncodeFrom(bytes, 1, 0, 0)
    IN  text \o [i \in 1..((8 - (Len(text) % 8)) % 8) |-> "="]

timeStep == 30

(* a mutant: the counter is the time in seconds *)
CounterSeconds(now) == now \div 1000

(* Math.floor(Math.floor(Date.now() / 1000) / timeStep) *)
Counter(now) == (now \div 1000) \div timeStep

RECURSIVE KeyMix(_, _)
KeyMix(key, i) ==
    IF i > Len(key) THEN 7 ELSE (KeyMix(key, i + 1) * 31 + key[i] + i) % 65521

(* crypto.createHmac('sha1', secret).update(buffer).digest(): SHA-1 is not  *)
(* computed; the digest is 20 bytes that depend on the key and the counter  *)
(* and on nothing else                                                      *)
HmacDigest(key, counter) ==
    [i \in 1..20 |->
        ((KeyMix(key, 1) + 1) * (i + 3) + (counter + 1) * (37 * i + 11)
            + (counter + i) * (counter + i)) % 256]

(* digest[19] & 0xf, and the 31-bit big-endian word at that offset *)
TruncOffset(digest) == digest[20] % 16

(* a mutant: the first byte is not masked with 0x7f, and << 24 of a byte of *)
(* 128 or more is a negative 32-bit integer                                 *)
TruncBinaryUnmasked(digest) ==
    LET offset == TruncOffset(digest)
        low31  ==   (digest[offset + 1] % 128) * 16777216
                  + (digest[offset + 2] % 256) * 65536
                  + (digest[offset + 3] % 256) * 256
                  + (digest[offset + 4] % 256)
    IN  IF digest[offset + 1] >= 128
        THEN (low31 - 1073741824) - 1073741824
        ELSE low31

TruncBinary(digest) ==
    LET offset == TruncOffset(digest)
    IN    (digest[offset + 1] % 128) * 16777216
        + (digest[offset + 2] % 256) * 65536
        + (digest[offset + 3] % 256) * 256
        + (digest[offset + 4] % 256)

(* Number.prototype.toString: the decimal digits, no leading zeros *)
RECURSIVE ToDigits(_)
ToDigits(n) == IF n < 10 THEN <<n>> ELSE Append(ToDigits(n \div 10), n % 10)

(* a mutant: the digits are returned as toString gives them *)
PadStartNone(s, width) == s

(* String.prototype.padStart(width, '0') *)
RECURSIVE PadStart(_, _)
PadStart(s, width) == IF Len(s) >= width THEN s ELSE PadStart(<<0>> \o s, width)

(* generateTOTP(base32Secret) when Date.now() reads now: a string of digits *)
TotpAt(base32Secret, counter) ==
    PadStart(ToDigits(TruncBinary(HmacDigest(Base32Decode(base32Secret), counter))
                        % 1000000), 6)

GenerateTOTP(base32Secret, now) == TotpAt(base32Secret, Counter(now))

----------------------------------------------------------------------------
(* controllers/goalController.js: calculateRequiredDeposit                 *)
(*                                                                         *)
(* Numbers are in hundredths.  The amounts, months and rates of the model  *)
(* are those for which every value the code computes is a dyadic rational  *)
(* of a few bits, so the doubles of the code are exact and integer         *)
(* arithmetic gives what the code gives.                                   *)

(* values of a field of req.body, and Number(value) *)
JsUndefined == [t |-> "undefined", v |-> 0]

JsNull == [t |-> "null", v |-> 0]

JsText == [t |-> "string", v |-> 0]

JsNum(v) == [t |-> "number", v |-> v]

NaN == [nan |-> TRUE, v |-> 0]

(* Number(x): undefined and a non-numeric string give NaN, null gives 0 *)
ToNumber(x) ==
    CASE x.t = "number" -> [nan |-> FALSE, v |-> x.v]
      [] x.t = "null"   -> [nan |-> FALSE, v |-> 0]
      [] OTHER          -> NaN

NoBody == [goalAmount |-> JsUndefined, months |-> JsUndefined,
           annualRate |-> JsUndefined]

Undefined == [def |-> FALSE, num |-> 0]

NoGoalRes == [status |-> 0, error |-> "", requiredDeposit |-> 0,
              projection |-> <<>>, iterations |-> 0]

GoalAmounts ==
    {JsUndefined, JsNull, JsText, JsNum(-100), JsNum(0), JsNum(1)}
        \cup {JsNum(100 * g) : g \in 1..MaxGoal}

MonthsValues ==
    {JsUndefined, JsText, JsNum(-100), JsNum(0), JsNum(150)}
        \cup {JsNum(100 * m) : m \in 1..MaxMonths}

(* annual rates in percent: 0, 3, 6 and 12 hundred *)
AnnualRates ==
    {JsUndefined, JsNull, JsText, JsNum(-100),
     JsNum(0), JsNum(30000), JsNum(60000), JsNum(120000)}

RECURSIVE Gcd(_, _)
Gcd(a, b) == IF b = 0 THEN a ELSE Gcd(b, a % b)

RECURSIVE Pow(_, _)
Pow(b, e) == IF e = 0 THEN 1 ELSE b * Pow(b, e - 1)

(* n / d rounded to the nearest integer, halves up: toFixed on exact values *)
RoundDiv(n, d) == IF 2 * (n % d) >= d THEN (n \div d) + 1 ELSE n \div d

(* const goal = Number(goalAmount) and so on *)
goal == ToNumber(body.goalAmount)

totalMonths == ToNumber(body.months)

rate == ToNumber(body.annualRate)

(* const monthlyRate = rate / 100 / 12, as a fraction in lowest terms *)
MonthlyRate(annualRate) ==
    [n |-> annualRate \div Gcd(annualRate, 120000),
     d |-> 120000 \div Gcd(annualRate, 120000)]

(* how often "for (let i = 1; i <= totalMonths; i++)" runs *)
LoopCount(months) == months \div 100

(* simulateInvestment: the balance after month i of a deposit of dep / 2^k *)
(* is SimNum(dep, r, i) / (2^k * r.d^i): balance += deposit, then          *)
(* balance += balance * monthlyRate                                        *)
RECURSIVE SimNum(_, _, _)
SimNum(dep, r, i) ==
    IF i = 0 THEN 0
    ELSE (SimNum(dep, r, i - 1) + dep * Pow(r.d, i - 1)) * (r.d + r.n)

(* result.balance < goal, for a deposit of dep / 2^k *)
BalanceBelow(dep, k, r, months, target) ==
    SimNum(dep, r, LoopCount(months))
        < target * Pow2(k) * Pow(r.d, LoopCount(months))

(* result.projection: { month: i, balance: Number(balance.toFixed(2)) } *)
Projection(dep, k, r, months) ==
    [i \in 1..LoopCount(months) |->
        [month |-> i,
         balance |-> RoundDiv(SimNum(dep, r, i), Pow2(k) * Pow(r.d, i))]]

(* mid.toFixed(2), in hundredths *)
ToFixed2(num, k) == RoundDiv(num, Pow2(k))

(* if (goal <= 0 || totalMonths <= 0 || rate < 0) *)
InvalidValues(g, m, r) == g.v <= 0 \/ m.v <= 0 \/ r.v < 0

GoalError(status, error) ==
    [NoGoalRes EXCEPT !.status = status, !.error = error]

(* the input validation, and the initialisation of the search *)
Validate ==
    /\ goalPc = "validate"
    /\ IF \/ body.goalAmount = JsUndefined
          \/ body.months = JsUndefined
          \/ body.annualRate = JsUndefined
       THEN /\ goalRes' = GoalError(400, "Missing required fields: goalAmount, months, and annualRate.")
            /\ goalPc' = "done"
            /\ UNCHANGED <<low, high>>
       ELSE IF goal.nan \/ totalMonths.nan \/ rate.nan
       THEN /\ goalRes' = GoalError(400, "All fields must be valid numbers.")
            /\ goalPc' = "done"
            /\ UNCHANGED <<low, high>>
       ELSE IF InvalidValues(goal, totalMonths, rate)
       THEN /\ goalRes' = GoalError(400,
              "Values must be positive, and interest rate must be non-negative.")
            /\ goalPc' = "done"
            /\ UNCHANGED <<low, high>>
       ELSE /\ low' = 0
            /\ high' = goal.v
            /\ goalPc' = "loop"
            /\ UNCHANGED goalRes
    /\ UNCHANGED <<body, mid, iterations, finalProjection, simulations>>
    /\ UNCHANGED outsideGoal

(* one iteration of "while (high - low > 0.01)"; low, high and mid are      *)
(* numerators over 2^iterations                                            *)
LoopStep ==
    /\ goalPc = "loop"
    /\ high - low > Pow2(iterations)
    /\ iterations' = iterations + 1
    /\ mid' = [def |-> TRUE, num |-> low + high]
    /\ simulations' = simulations + 1
    /\ IF BalanceBelow(low + high, iterations + 1, MonthlyRate(rate.v),
                       totalMonths.v, goal.v)
       THEN /\ low' = low + high
            /\ high' = 2 * high
            /\ UNCHANGED finalProjection
       ELSE /\ high' = low + high
            /\ low' = 2 * low
            /\ finalProjection' = Projection(low + high, iterations + 1,
                                             MonthlyRate(rate.v), totalMonths.v)
    /\ UNCHANGED <<body, goalPc, goalRes>>
    /\ UNCHANGED outsideGoal

(* the loop has ended: res.status(200).json(...), or mid.toFixed throws and *)
(* the catch block answers 500                                              *)
Respond ==
    /\ goalPc = "loop"
    /\ ~(high - low > Pow2(iterations))
    /\ goalPc' = "done"
    /\ goalRes' =
         IF ~mid.def
         THEN GoalError(500, "Internal server error. Please try again later.")
         ELSE [status |-> 200, error |-> "",
               requiredDeposit |-> ToFixed2(mid.num, iterations),
               projection |-> finalProjection,
               iterations |-> iterations]
    /\ UNCHANGED <<body, low, high, mid, iterations, finalProjection, simulations>>
    /\ UNCHANGED outsideGoal

(* requests without interest over many months *)
FlatBodies ==
    [goalAmount : {JsNum(100 * g) : g \in 1..MaxFlatGoal},
     months : {JsNum(100 * m) : m \in 1..MaxFlatMonths},
     annualRate : {JsNum(0)}]

(* requests for a part of a month: months = 0.5 *)
PartMonthBodies ==
    [goalAmount : {JsNum(100), JsNum(200)},
     months : {JsNum(50)},
     annualRate : {JsNum(0), JsNum(60000)}]

(* a request arrives with any body of the model *)
InitGoal ==
    /\ body \in [goalAmount : GoalAmounts, months : MonthsValues,
                 annualRate : AnnualRates] \cup FlatBodies \cup PartMonthBodies
    /\ goalPc = "validate"
    /\ low = 0 /\ high = 0 /\ mid = Undefined
    /\ iterations = 0
    /\ finalProjection = <<>>
    /\ simulations = 0
    /\ goalRes = NoGoalRes

----------------------------------------------------------------------------
(* IEEE 754 double arithmetic, for the requests whose amounts the exact     *)
(* arithmetic above cannot hold: a positive double is m * 2^e with m a      *)
(* natural number of at most 53 bits.  m is a sequence of bits, least       *)
(* significant first, because it does not fit an integer of the checker.    *)
(* Only what calculateRequiredDeposit uses is defined: +, -, /2, <, and     *)
(* toFixed(2); no value of the model is subnormal, infinite or NaN.  The    *)
(* operators on bits are written without recursion over the bits: a carry   *)
(* is decided by looking back for the position that produced it.            *)

(* 52 stored bits and the implicit leading one *)
MantissaBits == 52 + 1

(* the positions of the ones of b, and b without its leading zeros *)
Ones(b) == {i \in 1..Len(b) : b[i] = 1}

Trim(b) ==
    IF Ones(b) = {} THEN <<>>
    ELSE SubSeq(b, 1, CHOOSE i \in Ones(b) : \A j \in Ones(b) : j <= i)

Zeros(n) == [i \in 1..n |-> 0]

(* b * 2^n *)
ShiftLeft(b, n) == IF b = <<>> THEN <<>> ELSE Zeros(n) \o b

(* bit i of b, 0 beyond its length *)
BitAt(b, i) == IF i <= Len(b) THEN b[i] ELSE 0

(* a + b + carry: the carry into position i comes from a position j below  *)
(* i where both bits are 1 (or from the carry given, j = 0), through        *)
(* positions where at least one bit is 1                                    *)
BitsAdd(a, b, carry) ==
    LET n == (IF Len(a) > Len(b) THEN Len(a) ELSE Len(b)) + 1
        carryInto(i) ==
            \E j \in 0..(i - 1) :
                /\ IF j = 0 THEN carry = 1 ELSE BitAt(a, j) + BitAt(b, j) = 2
                /\ \A k \in (j + 1)..(i - 1) : BitAt(a, k) + BitAt(b, k) >= 1
    IN  Trim([i \in 1..n |->
                (BitAt(a, i) + BitAt(b, i) + (IF carryInto(i) THEN 1 ELSE 0)) % 2])

(* a - b - borrow for a >= b + borrow: the borrow from position i comes     *)
(* from a position j below i where the bit of a is below the bit of b (or   *)
(* from the borrow given), through positions where it is not above          *)
BitsSub(a, b, borrow) ==
    LET borrowFrom(i) ==
            \E j \in 0..(i - 1) :
                /\ IF j = 0 THEN borrow = 1 ELSE BitAt(a, j) < BitAt(b, j)
                /\ \A k \in (j + 1)..(i - 1) : BitAt(a, k) <= BitAt(b, k)
    IN  Trim([i \in 1..Len(a) |->
                (BitAt(a, i) + BitAt(b, i) + (IF borrowFrom(i) THEN 1 ELSE 0)) % 2])

(* a < b, for a and b without leading zeros *)
BitsLess(a, b) ==
    IF Len(a) # Len(b) THEN Len(a) < Len(b)
    ELSE \E i \in 1..Len(a) :
            /\ a[i] < b[i]
            /\ \A j \in (i + 1)..Len(a) : a[j] = b[j]

(* the bits of a natural number, and of a number written in hexadecimal *)
RECURSIVE BitsOf(_)
BitsOf(n) == IF n = 0 THEN <<>> ELSE <<n % 2>> \o BitsOf(n \div 2)

RECURSIVE HexBits(_)
HexBits(digits) ==
    IF digits = <<>> THEN <<>>
    ELSE LET d == digits[Len(digits)]
         IN  <<d % 2, (d \div 2) % 2, (d \div 4) % 2, d \div 8>>
                \o HexBits(SubSeq(digits, 1, Len(digits) - 1))

DblZero == [m |-> <<>>, e |-> 0]

(* the one representation of a value: m is odd, or the value is 0 *)
Canon(m, e) ==
    IF Ones(m) = {} THEN DblZero
    ELSE LET lowest == CHOOSE i \in Ones(m) : \A j \in Ones(m) : i <= j
         IN  [m |-> SubSeq(m, lowest, Len(m)), e |-> e + lowest - 1]

(* m * 2^e rounded to 53 significant bits, ties to the even mantissa *)
Round53(bits, e) ==
    LET m == Trim(bits)
        s == Len(m) - MantissaBits
    IN  IF s <= 0 THEN Canon(m, e)
        ELSE LET kept == SubSeq(m, s + 1, Len(m))
                 rest == SubSeq(m, 1, s)
                 more == \E i \in 1..(s - 1) : rest[i] = 1
                 up   == rest[s] = 1 /\ (more \/ kept[1] = 1)
             IN  Canon(IF up THEN BitsAdd(kept, <<>>, 1) ELSE kept, e + s)

MinExp(a, b) == IF a.e < b.e THEN a.e ELSE b.e

(* the mantissa of a at the exponent ex <= a.e *)
Aligned(a, ex) == ShiftLeft(a.m, a.e - ex)

(* a + b, a - b (for a >= b), a / 2 and a < b of doubles *)
DblAdd(a, b) ==
    IF a.m = <<>> THEN b
    ELSE IF b.m = <<>> THEN a
    ELSE Round53(BitsAdd(Aligned(a, MinExp(a, b)), Aligned(b, MinExp(a, b)), 0),
                 MinExp(a, b))

DblSub(a, b) ==
    IF b.m = <<>> THEN a
    ELSE Round53(BitsSub(Aligned(a, MinExp(a, b)), Aligned(b, MinExp(a, b)), 0),
                 MinExp(a, b))

DblHalf(a) == IF a.m = <<>> THEN DblZero ELSE [m |-> a.m, e |-> a.e - 1]

DblLess(a, b) ==
    IF b.m = <<>> THEN FALSE
    ELSE IF a.m = <<>> THEN TRUE
    ELSE BitsLess(Aligned(a, MinExp(a, b)), Aligned(b, MinExp(a, b)))

(* a.toFixed(2) in hundredths, as bits: the integer nearest to 100 * a,     *)
(* the larger one when two are equally near                                 *)
DblToFixed2(a) ==
    LET c == BitsAdd(BitsAdd(ShiftLeft(a.m, 6), ShiftLeft(a.m, 5), 0),
                     ShiftLeft(a.m, 2), 0)
    IN  IF a.e >= 0 THEN ShiftLeft(c, a.e)
        ELSE IF Len(c) < -a.e THEN <<>>
        ELSE IF c[-a.e] = 1
             THEN BitsAdd(SubSeq(c, 1 - a.e, Len(c)), <<>>, 1)
             ELSE SubSeq(c, 1 - a.e, Len(c))

(* calculateRequiredDeposit on doubles.  The requests have annualRate 0, so *)
(* monthlyRate is 0 and balance * monthlyRate is 0; low, high and mid.num   *)
(* hold doubles, amounts are in units of 1 (not in hundredths), months are  *)
(* in hundredths as before.                                                 *)

(* the double nearest to 0.01: 0x1.47ae147ae147bp-7 *)
Tolerance ==
    Canon(Trim(HexBits(<<1, 4, 7, 10, 14, 1, 4, 7, 10, 14, 1, 4, 7, 11>>)), -59)

(* the doubles nearest to 0.10 and 0.11: 0x1.999999999999ap-4 and           *)
(* 0x1.c28f5c28f5c29p-4                                                     *)
Dime ==
    Canon(Trim(HexBits(<<1, 9, 9, 9, 9, 9, 9, 9, 9, 9, 9, 9, 9, 10>>)), -56)

ElevenCents ==
    Canon(Trim(HexBits(<<1, 12, 2, 8, 15, 5, 12, 2, 8, 15, 5, 12, 2, 9>>)), -56)

(* 2^k *)
DblPow2(k) == [m |-> <<1>>, e |-> k]

(* goal amounts of 0.10 and 0.11 over 8 months: the probe goalAmount / 8   *)
(* is the exact answer and the rounding of the additions decides the        *)
(* comparison                                                               *)
TieBodies ==
    [goalAmount : {JsNum(Dime), JsNum(ElevenCents)},
     months : {JsNum(800)},
     annualRate : {JsNum(0)}]

(* goal amounts of 2^45 .. 2^MaxGoalExp over one month *)
LargeBodies ==
    [goalAmount : {JsNum(DblPow2(k)) : k \in 45..MaxGoalExp},
     months : {JsNum(100)},
     annualRate : {JsNum(0)}]

(* a goal amount of 0.04 = 4 * 0.01 over one month and over two: after two  *)
(* halvings high - low is 0.01 up to the rounding of mid                    *)
FourCents == [m |-> Tolerance.m, e |-> Tolerance.e + 2]

CentBodies ==
    [goalAmount : {JsNum(FourCents)},
     months : {JsNum(100), JsNum(200)},
     annualRate : {JsNum(0)}]

(* balance * monthlyRate, for monthlyRate = 0 *)
DblTimesMonthlyRate(balance) == DblZero

(* simulateInvestment(deposit): the balance after month i *)
RECURSIVE DblBalance(_, _)
DblBalance(deposit, i) ==
    IF i = 0 THEN DblZero
    ELSE LET balance == DblAdd(DblBalance(deposit, i - 1), deposit)
         IN  DblAdd(balance, DblTimesMonthlyRate(balance))

(* simulateInvestment(deposit).projection, the balances in hundredths *)
DblProjection(deposit, months) ==
    [i \in 1..LoopCount(months) |->
        [month |-> i, balance |-> DblToFixed2(DblBalance(deposit, i))]]

(* high - low > 0.01 *)
DblContinues(lo, hi) == DblLess(Tolerance, DblSub(hi, lo))

(* mid = (low + high) / 2 *)
DblProbe(lo, hi) == DblHalf(DblAdd(lo, hi))

(* result.balance < goal *)
DblBalanceBelow(deposit, months, target) ==
    DblLess(DblBalance(deposit, LoopCount(months)), target)

(* iterations++; the counter of the model stops at MaxIterations *)
Incremented(n) == IF n < MaxIterations THEN n + 1 ELSE n

(* the input validation, and the initialisation of the search *)
DblValidate ==
    /\ goalPc = "validate"
    /\ IF \/ body.goalAmount.t = JsUndefined.t
          \/ body.months.t = JsUndefined.t
          \/ body.annualRate.t = JsUndefined.t
       THEN /\ goalRes' = GoalError(400, "Missing required fields: goalAmount, months, and annualRate.")
            /\ goalPc' = "done"
            /\ UNCHANGED <<low, high>>
       ELSE IF goal.nan \/ totalMonths.nan \/ rate.nan
       THEN /\ goalRes' = GoalError(400, "All fields must be valid numbers.")
            /\ goalPc' = "done"
            /\ UNCHANGED <<low, high>>
       ELSE IF ~DblLess(DblZero, goal.v) \/ totalMonths.v <= 0 \/ rate.v < 0
       THEN /\ goalRes' = GoalError(400,
              "Values must be positive, and interest rate must be non-negative.")
            /\ goalPc' = "done"
            /\ UNCHANGED <<low, high>>
       ELSE /\ low' = DblZero
            /\ high' = goal.v
            /\ goalPc' = "loop"
            /\ UNCHANGED goalRes
    /\ UNCHANGED <<body, mid, iterations, finalProjection, simulations>>
    /\ UNCHANGED outsideGoal

(* one iteration of "while (high - low > 0.01)" *)
DblLoopStep ==
    /\ goalPc = "loop"
    /\ DblContinues(low, high)
    /\ iterations' = Incremented(iterations)
    /\ mid' = [def |-> TRUE, num |-> DblProbe(low, high)]
    /\ simulations' = Incremented(simulations)
    /\ IF DblBalanceBelow(DblProbe(low, high), totalMonths.v, goal.v)
       THEN /\ low' = DblProbe(low, high)
            /\ UNCHANGED <<high, finalProjection>>
       ELSE /\ high' = DblProbe(low, high)
            /\ finalProjection' = DblProjection(DblProbe(low, high), totalMonths.v)
            /\ UNCHANGED low
    /\ UNCHANGED <<body, goalPc, goalRes>>
    /\ UNCHANGED outsideGoal

(* the loop has ended: res.status(200).json(...), or mid.toFixed throws and *)
(* the catch block answers 500                                              *)
DblRespond ==
    /\ goalPc = "loop"
    /\ ~DblContinues(low, high)
    /\ goalPc' = "done"
    /\ goalRes' =
         IF ~mid.def
         THEN GoalError(500, "Internal server error. Please try again later.")
         ELSE [status |-> 200, error |-> "",
               requiredDeposit |-> DblToFixed2(mid.num),
               projection |-> finalProjection,
               iterations |-> iterations]
    /\ UNCHANGED <<body, low, high, mid, iterations, finalProjection, simulations>>
    /\ UNCHANGED outsideGoal

(* the whole search as a function of the request: the value of mid when    *)
(* the loop ends, from the values of low, high and mid before an iteration  *)
RECURSIVE DblSearch(_, _, _, _, _)
DblSearch(lo, hi, m, months, target) ==
    IF ~DblContinues(lo, hi) THEN m
    ELSE IF DblBalanceBelow(DblProbe(lo, hi), months, target)
    THEN DblSearch(DblProbe(lo, hi), hi,
                   [def |-> TRUE, num |-> DblProbe(lo, hi)], months, target)
    ELSE DblSearch(lo, DblProbe(lo, hi),
                   [def |-> TRUE, num |-> DblProbe(lo, hi)], months, target)

(* requiredDeposit of the response to a request with body b, for a b that   *)
(* is answered 200                                                          *)
DblRequiredDeposit(b) ==
    DblToFixed2(DblSearch(DblZero, ToNumber(b.goalAmount).v, Undefined,
                          ToNumber(b.months).v, ToNumber(b.goalAmount).v).num)

(* a request arrives with one of the bodies above *)
InitGoalDbl ==
    /\ body \in TieBodies \cup LargeBodies \cup CentBodies
    /\ goalPc = "validate"
    /\ low = DblZero /\ high = DblZero /\ mid = Undefined
    /\ iterations = 0
    /\ finalProjection = <<>>
    /\ simulations = 0
    /\ goalRes = NoGoalRes

----------------------------------------------------------------------------
(* controllers/authController.js *)

(* bcrypt.hash and bcrypt.compare: the hash matches the password hashed *)
BcryptHash(password) == <<"$2a$12$", password>>

BcryptCompare(password, passwordHash) == passwordHash = BcryptHash(password)

NoUser == [email |-> "", passwordHash |-> <<>>, totpSecret |-> <<>>,
           lastIssuedCode |-> <<>>]

(* User.findOne({ email }): the document, or null *)
FindOne(email) == IF email \in DOMAIN users THEN users[email] ELSE NoUser

(* a code of the request body is a JSON string or a JSON number *)
StrCode(digits) == [t |-> "string", s |-> digits, v |-> 0]

NumCode(n) == [t |-> "number", s |-> <<>>, v |-> n]

(* String(code) *)
StringOf(code) == IF code.t = "string" THEN code.s ELSE ToDigits(code.v)

RECURSIVE DigitsValue(_)
DigitsValue(s) ==
    IF Len(s) = 0 THEN 0
    ELSE 10 * DigitsValue(SubSeq(s, 1, Len(s) - 1)) + s[Len(s)]

(* the codes a client submits: the registered user's codes of the first two *)
(* counters as strings, and the code of counter 0 as a number               *)
SubmittedCodes ==
    {StrCode(TotpAt(SecretA, c)) : c \in 0..1}
        \cup {NumCode(DigitsValue(TotpAt(SecretA, 0)))}

(* the bodies of the login and verify requests that clients send *)
LoginBodies ==
    {[email |-> "a@x", password |-> p] : p \in Passwords}
        \cup {[email |-> "b@x", password |-> "guess"]}

VerifyBodies ==
    {[email |-> "a@x", code |-> c] : c \in SubmittedCodes}
        \cup {[email |-> "b@x", code |-> StrCode(TotpAt(SecretA, 0))]}

(* a handler's locals: req.body, the document found, and what it did so far *)
Idle == [kind |-> "none", pc |-> "idle", email |-> "", password |-> "",
         code |-> StrCode(<<>>), user |-> NoUser,
         limited |-> FALSE, compared |-> FALSE, at |-> 0]

NoResponse == [kind |-> "none", email |-> "", code |-> StrCode(<<>>),
               limited |-> FALSE, compared |-> FALSE, at |-> 0,
               status |-> 0, message |-> "", issued |-> <<>>]

(* res.status(status).json({message | error, code}) sent by a handler whose *)
(* locals are l: the response, with what the handler did to produce it      *)
Response(l, status, message, issued) ==
    [kind |-> l.kind, email |-> l.email, code |-> l.code,
     limited |-> l.limited, compared |-> l.compared, at |-> l.at,
     status |-> status, message |-> message, issued |-> issued]

(* crypto.randomBytes(20): the secrets the model generates *)
RawSecrets ==
    {[i \in 1..20 |-> (s * i * i + 7 * s + i) % 256] : s \in 0..MaxSeed}
        \cup {[i \in 1..20 |-> 0], [i \in 1..20 |-> 255]}

(* .replace(/=/g, "") *)
StripPadding(text) == SelectSeq(text, LAMBDA c : c # "=")

(* a mutant: the text is cut to 16 characters *)
EncodedSecretShort(rawSecret) == SubSeq(Base32Encode(rawSecret), 1, 16)

(* base32.encode(rawSecret).toString().replace(/=/g, "") *)
EncodedSecret(rawSecret) == StripPadding(Base32Encode(rawSecret))

(* the locals of registerUser: those of the other handlers, and rawSecret *)
RegisterLocals(email, password) ==
    [kind |-> "register", pc |-> "findOne", email |-> email,
     password |-> password, code |-> StrCode(<<>>), user |-> NoUser,
     limited |-> FALSE, compared |-> FALSE, at |-> 0, rawSecret |-> <<>>]

(* registerUser up to its first await: User.findOne is started *)
RegisterArrive(h, email, password) ==
    /\ handlers[h] = Idle
    /\ handlers' = [handlers EXCEPT ![h] = RegisterLocals(email, password)]
    /\ UNCHANGED <<users, resp>>
    /\ UNCHANGED limiterVars
    /\ UNCHANGED outsideAuth

(* registerUser after User.findOne: bcrypt.hash is started *)
RegisterFound(h) ==
    /\ handlers[h].kind = "register" /\ handlers[h].pc = "findOne"
    /\ IF FindOne(handlers[h].email) # NoUser
       THEN /\ resp' = Response(handlers[h], 400, "Email already exists", <<>>)
            /\ handlers' = [handlers EXCEPT ![h] = Idle]
       ELSE /\ handlers' = [handlers EXCEPT ![h].pc = "hash"]
            /\ UNCHANGED resp
    /\ UNCHANGED users
    /\ UNCHANGED limiterVars
    /\ UNCHANGED outsideAuth

(* registerUser after bcrypt.hash: the secret is generated and encoded, the *)
(* document is built and user.save is started                               *)
RegisterHashed(h, rawSecret) ==
    /\ handlers[h].kind = "register" /\ handlers[h].pc = "hash"
    /\ handlers' = [handlers EXCEPT
                      ![h].pc = "save",
                      ![h].rawSecret = rawSecret,
                      ![h].user = [email |-> handlers[h].email,
                                   passwordHash |-> BcryptHash(handlers[h].password),
                                   totpSecret |-> EncodedSecret(rawSecret),
                                   lastIssuedCode |-> <<>>]]
    /\ UNCHANGED <<users, resp>>
    /\ UNCHANGED limiterVars
    /\ UNCHANGED outsideAuth

(* registerUser after user.save: email is unique in the collection, a       *)
(* second document of one email makes save throw and the catch answers 500  *)
RegisterSaved(h) ==
    /\ handlers[h].kind = "register" /\ handlers[h].pc = "save"
    /\ IF FindOne(handlers[h].email) # NoUser
       THEN /\ resp' = Response(handlers[h], 500, "Server error", <<>>)
            /\ UNCHANGED users
       ELSE /\ users' = [e \in DOMAIN users \cup {handlers[h].email} |->
                           IF e = handlers[h].email THEN handlers[h].user
                           ELSE users[e]]
            /\ resp' = Response(handlers[h], 201, "User registered successfully", <<>>)
    /\ handlers' = [handlers EXCEPT ![h] = Idle]
    /\ UNCHANGED limiterVars
    /\ UNCHANGED outsideAuth

(* loginUser up to its first await: the limiter is consulted, then          *)
(* User.findOne is started                                                  *)
LoginArrive(h, email, password) ==
    /\ handlers[h] = Idle
    /\ LimiterCallsLeft(email)
    /\ CallLimiter(email)
    /\ IF LimiterRet(loginAttempts, email, clock)
       THEN /\ handlers' = [handlers EXCEPT ![h] =
                              [Idle EXCEPT !.kind = "login", !.pc = "findOne",
                                           !.email = email,
                                           !.password = password,
                                           !.limited = TRUE]]
            /\ UNCHANGED resp
       ELSE /\ resp' = Response([Idle EXCEPT !.kind = "login", !.email = email],
                                429, "Too many login attempts", <<>>)
            /\ UNCHANGED handlers
    /\ UNCHANGED <<clock, ticks, users>>
    /\ UNCHANGED outsideAuth

(* loginUser after User.findOne: bcrypt.compare is started on the password *)
LoginFound(h) ==
    /\ handlers[h].kind = "login" /\ handlers[h].pc = "findOne"
    /\ IF FindOne(handlers[h].email) = NoUser
       THEN /\ resp' = Response(handlers[h], 400, "Invalid credentials", <<>>)
            /\ handlers' = [handlers EXCEPT ![h] = Idle]
       ELSE /\ handlers' = [handlers EXCEPT
                              ![h].pc = "compare",
                              ![h].user = FindOne(handlers[h].email),
                              ![h].compared = TRUE]
            /\ UNCHANGED resp
    /\ UNCHANGED users
    /\ UNCHANGED limiterVars
    /\ UNCHANGED outsideAuth

(* loginUser after bcrypt.compare: the code is generated, user.save started *)
LoginCompared(h) ==
    /\ handlers[h].kind = "login" /\ handlers[h].pc = "compare"
    /\ IF ~BcryptCompare(handlers[h].password, handlers[h].user.passwordHash)
       THEN /\ resp' = Response(handlers[h], 400, "Invalid credentials", <<>>)
            /\ handlers' = [handlers EXCEPT ![h] = Idle]
       ELSE /\ handlers' = [handlers EXCEPT
                              ![h].pc = "save",
                              ![h].at = clock,
                              ![h].user.lastIssuedCode =
                                  GenerateTOTP(handlers[h].user.totpSecret, clock)]
            /\ UNCHANGED resp
    /\ UNCHANGED users
    /\ UNCHANGED limiterVars
    /\ UNCHANGED outsideAuth

(* loginUser after user.save: the code is returned *)
LoginSaved(h) ==
    /\ handlers[h].kind = "login" /\ handlers[h].pc = "save"
    /\ users' = [users EXCEPT ![handlers[h].email] = handlers[h].user]
    /\ resp' = Response(handlers[h], 200, "Verification code sent",
                        handlers[h].user.lastIssuedCode)
    /\ handlers' = [handlers EXCEPT ![h] = Idle]
    /\ UNCHANGED limiterVars
    /\ UNCHANGED outsideAuth

(* verifyCode up to its first await: User.findOne is started *)
VerifyArrive(h, email, code) ==
    /\ handlers[h] = Idle
    /\ handlers' = [handlers EXCEPT ![h] =
                      [Idle EXCEPT !.kind = "verify", !.pc = "findOne",
                                   !.email = email, !.code = code]]
    /\ UNCHANGED <<users, resp>>
    /\ UNCHANGED limiterVars
    /\ UNCHANGED outsideAuth

(* the work of String(code) !== String(expected): strings of different      *)
(* lengths differ at once, strings of one length are read from the left up  *)
(* to the first character that differs; the number of characters read.  The *)
(* language leaves the cost of !== to the engine, this is what engines do;  *)
(* the constant-time primitive of the platform, crypto.timingSafeEqual, is  *)
(* not called.                                                              *)
CompareWork(a, b) ==
    IF Len(a) # Len(b) THEN 0
    ELSE IF a = b THEN Len(a)
    ELSE CHOOSE i \in 1..Len(a) : a[i] # b[i] /\ \A j \in 1..(i - 1) : a[j] = b[j]

(* the codes a client can submit that differ from expected in one digit *)
NearMisses(expected) ==
    {[expected EXCEPT ![i] = (@ + 1) % 10] : i \in 1..Len(expected)}

(* a mutant: the code of the window before is accepted too *)
CodeMatchesDrift(code, base32Secret, now) ==
    \/ StringOf(code) = GenerateTOTP(base32Secret, now)
    \/ StringOf(code) = GenerateTOTP(base32Secret, now - timeStep * 1000)

(* String(code) !== String(expected), expected = generateTOTP(user.totpSecret) *)
CodeMatches(code, base32Secret, now) ==
    StringOf(code) = GenerateTOTP(base32Secret, now)

(* verifyCode after User.findOne: the expected code is generated and compared *)
VerifyFound(h) ==
    /\ handlers[h].kind = "verify" /\ handlers[h].pc = "findOne"
    /\ resp' =
         IF FindOne(handlers[h].email) = NoUser
         THEN Response(handlers[h], 400, "Invalid user", <<>>)
         ELSE LET l == [handlers[h] EXCEPT !.at = clock, !.compared = TRUE]
              IN  IF ~CodeMatches(l.code, FindOne(l.email).totpSecret, clock)
                  THEN Response(l, 400, "Invalid verification code", <<>>)
                  ELSE Response(l, 200, "Login successful", <<>>)
    /\ handlers' = [handlers EXCEPT ![h] = Idle]
    /\ UNCHANGED users
    /\ UNCHANGED limiterVars
    /\ UNCHANGED outsideAuth

(* wall-clock time passes while requests are in flight *)
AuthAdvance(d) ==
    /\ ticks < MaxAuthTicks
    /\ Tick(d)

InitAuth ==
    /\ users = [e \in {"a@x"} |->
                  [email |-> e, passwordHash |-> BcryptHash("pw"),
                   totpSecret |-> SecretA, lastIssuedCode |-> <<>>]]
    /\ handlers = [h \in Handlers |-> Idle]
    /\ resp = NoResponse

(* the server starts on an empty User collection *)
InitRegister ==
    /\ users = << >>
    /\ handlers = [h \in Handlers |-> Idle]
    /\ resp = NoResponse

(* wall-clock time passes between registrations and logins *)
TotpAdvance(d) ==
    /\ ticks < MaxTotpTicks
    /\ Tick(d)

----------------------------------------------------------------------------
(* middleware/verifyToken.js, routes/goalRoutes.js, models/Goal.js and      *)
(* controllers/goalDatabaseController.js                                    *)
(*                                                                         *)
(* A header is a sequence of pieces of text: the space, the bar, and words  *)
(* that hold neither; no two words are adjacent.                           *)

SP == " "

BAR == "|"

(* req.headers.authorization of a request without the header *)
NoHeader == <<>>

(* String.prototype.split(sep): the texts between the separators *)
RECURSIVE Split(_, _)
Split(s, sep) ==
    IF \A i \in 1..Len(s) : s[i] # sep
    THEN <<s>>
    ELSE LET i == CHOOSE k \in 1..Len(s) :
                      s[k] = sep /\ \A j \in 1..(k - 1) : s[j] # sep
         IN  <<SubSeq(s, 1, i - 1)>> \o Split(SubSeq(s, i + 1, Len(s)), sep)

(* a text between separators: one word, or the empty string *)
TextOf(piece) == IF piece = <<>> THEN "" ELSE piece[1]

(* what verifyToken does with a request: an answer, or next() with req.userId *)
Refused(status, error) ==
    [next |-> FALSE, status |-> status, error |-> error, userId |-> ""]

Passed(email) == [next |-> TRUE, status |-> 0, error |-> "", userId |-> email]

(* export const verifyToken = (req, res, next) *)
VerifyToken(authHeader) ==
    IF authHeader = NoHeader
    THEN Refused(401, "Missing Authorization header")
    ELSE LET parts == Split(authHeader, SP)
         IN  IF Len(parts) # 2 \/ parts[1] # <<"Bearer">>
             THEN Refused(401, "Invalid Authorization format")
             ELSE LET pieces == Split(parts[2], BAR)
                      (* const [token, email]: email is undefined when *)
                      (* there is no second text                       *)
                      email  == IF Len(pieces) >= 2 THEN TextOf(pieces[2]) ELSE ""
                  IN  IF email = ""
                      THEN Refused(401, "Invalid Authorization header")
                      ELSE Passed(email)

(* localStorage.getItem: an item that is not stored reads null *)
NoItem == [stored |-> FALSE, text |-> ""]

Item(text) == [stored |-> TRUE, text |-> text]

(* `${item}` in a template string *)
TemplateOf(item) == IF item.stored THEN item.text ELSE "null"

(* the words of a text put in a header: the empty string has none *)
WordOf(text) == IF text = "" THEN <<>> ELSE <<text>>

(* GoalService.getAuthHeaders(): Authorization: `Bearer ${token}|${email}` *)
GetAuthHeaders(storage) ==
    <<"Bearer", SP>> \o WordOf(TemplateOf(storage.authToken)) \o <<BAR>>
        \o WordOf(TemplateOf(storage.authEmail))

(* the Authorization headers of the requests other clients send *)
ClientHeaders ==
    {NoHeader,
     <<"Basic", SP, "VALID">>,
     <<"Bearer", SP, "VALID">>,
     <<"Bearer", SP, "VALID", BAR>>,
     <<"Bearer", SP, "VALID", BAR, "a@x">>,
     <<"Bearer", SP, BAR, "b@x">>}

(* req.body of POST /api/goals *)
SaveBody(goalAmount, requiredDeposit) ==
    [goalAmount |-> goalAmount, years |-> JsNum(1), annualRate |-> JsNum(5),
     requiredDeposit |-> requiredDeposit]

SaveBodies ==
    {SaveBody(JsNum(1000), JsNum(81)),
     SaveBody(JsNum(1000), JsUndefined),
     SaveBody(JsNull, JsNum(81))}

(* GoalSchema: the four fields are of type Number and required *)
SchemaAccepts(b) ==
    \A f \in {"goalAmount", "years", "annualRate", "requiredDeposit"} :
        b[f].t = "number"

StoreHandlers == {"g1", "g2"}

(* the locals of a request of goalDatabaseController.js *)
NoGoalReq == [route |-> "none", pc |-> "idle", userId |-> "", goalId |-> 0,
              body |-> SaveBody(JsUndefined, JsUndefined)]

NoStoreRes == [route |-> "none", status |-> 0, error |-> "", userId |-> "",
               goalId |-> 0, goals |-> <<>>]

StoreResponse(l, status, error, found) ==
    [route |-> l.route, status |-> status, error |-> error,
     userId |-> l.userId, goalId |-> l.goalId, goals |-> found]

(* the later of two documents by createdAt; documents saved in the same     *)
(* millisecond are ordered by _id, whose counter grows                     *)
Newer(a, b) ==
    \/ a.createdAt > b.createdAt
    \/ a.createdAt = b.createdAt /\ a.id > b.id

(* .sort({ createdAt: -1 }) *)
RECURSIVE SortNewestFirst(_)
SortNewestFirst(docs) ==
    IF docs = {} THEN <<>>
    ELSE LET first == CHOOSE d \in docs : \A o \in docs \ {d} : Newer(d, o)
         IN  <<first>> \o SortNewestFirst(docs \ {first})

(* Goal.find({ userId }).sort({ createdAt: -1 }) *)
Find(userId) == SortNewestFirst({g \in goals : g.userId = userId})

(* a mutant: the goal is looked up by _id alone *)
FindOneById(goalId, userId) == {g \in goals : g.id = goalId}

(* Goal.findOne({ _id: goalId, userId }): the documents that match, at most one *)
FindOneGoal(goalId, userId) ==
    {g \in goals : g.id = goalId /\ g.userId = userId}

(* the requests in flight that will save a document *)
Saving == {h \in StoreHandlers : goalReqs[h].pc = "save"}

(* a goal database route up to the first await of its controller:           *)
(* verifyToken, then createGoal, getGoals or deleteGoal                     *)
GoalRouteArrive(h, route, authHeader, b, id) ==
    /\ goalReqs[h] = NoGoalReq
    /\ LET checked == VerifyToken(authHeader)
           l == [NoGoalReq EXCEPT !.route = route, !.userId = checked.userId]
       IN  IF ~checked.next
           THEN /\ storeRes' = StoreResponse(l, checked.status, checked.error, <<>>)
                /\ UNCHANGED goalReqs
           ELSE CASE route = "createGoal" ->
                       IF \E f \in DOMAIN b : b[f] = JsUndefined
                       THEN /\ storeRes' = StoreResponse(l, 400,
                                               "Missing required fields.", <<>>)
                            /\ UNCHANGED goalReqs
                       ELSE /\ nextGoalId + Cardinality(Saving) <= MaxGoals
                            /\ goalReqs' = [goalReqs EXCEPT ![h] =
                                              [l EXCEPT !.pc = "save", !.body = b]]
                            /\ UNCHANGED storeRes
                  [] route = "getGoals" ->
                       /\ goalReqs' = [goalReqs EXCEPT ![h] = [l EXCEPT !.pc = "find"]]
                       /\ UNCHANGED storeRes
                  [] route = "deleteGoal" ->
                       /\ goalReqs' = [goalReqs EXCEPT ![h] =
                                         [l EXCEPT !.pc = "findOne", !.goalId = id]]
                       /\ UNCHANGED storeRes
    /\ UNCHANGED <<goals, nextGoalId>>
    /\ UNCHANGED outsideStore

(* createGoal after goal.save(): a rejected save is caught *)
CreateSaved(h) ==
    /\ goalReqs[h].pc = "save"
    /\ IF SchemaAccepts(goalReqs[h].body)
       THEN /\ goals' = goals \cup {[id |-> nextGoalId,
                                     userId |-> goalReqs[h].userId,
                                     createdAt |-> clock]}
            /\ nextGoalId' = nextGoalId + 1
            /\ storeRes' = StoreResponse([goalReqs[h] EXCEPT !.goalId = nextGoalId],
                                         201, "", <<>>)
       ELSE /\ storeRes' = StoreResponse(goalReqs[h], 500, "Server error", <<>>)
            /\ UNCHANGED <<goals, nextGoalId>>
    /\ goalReqs' = [goalReqs EXCEPT ![h] = NoGoalReq]
    /\ UNCHANGED outsideStore

(* getGoals after Goal.find *)
GetFound(h) ==
    /\ goalReqs[h].pc = "find"
    /\ storeRes' = StoreResponse(goalReqs[h], 200, "", Find(goalReqs[h].userId))
    /\ goalReqs' = [goalReqs EXCEPT ![h] = NoGoalReq]
    /\ UNCHANGED <<goals, nextGoalId>>
    /\ UNCHANGED outsideStore

(* deleteGoal after Goal.findOne *)
DeleteFound(h) ==
    /\ goalReqs[h].pc = "findOne"
    /\ IF FindOneGoal(goalReqs[h].goalId, goalReqs[h].userId) = {}
       THEN /\ storeRes' = StoreResponse(goalReqs[h], 404, "Goal not found.", <<>>)
            /\ goalReqs' = [goalReqs EXCEPT ![h] = NoGoalReq]
       ELSE /\ goalReqs' = [goalReqs EXCEPT ![h].pc = "deleteOne"]
            /\ UNCHANGED storeRes
    /\ UNCHANGED <<goals, nextGoalId>>
    /\ UNCHANGED outsideStore

(* deleteGoal after Goal.deleteOne({ _id: goalId }) *)
DeleteDone(h) ==
    /\ goalReqs[h].pc = "deleteOne"
    /\ goals' = {g \in goals : g.id # goalReqs[h].goalId}
    /\ storeRes' = StoreResponse(goalReqs[h], 200, "", <<>>)
    /\ goalReqs' = [goalReqs EXCEPT ![h] = NoGoalReq]
    /\ UNCHANGED nextGoalId
    /\ UNCHANGED outsideStore

(* wall-clock time passes between the requests *)
StoreAdvance(d) ==
    /\ ticks < MaxStoreTicks
    /\ Tick(d)

(* the server starts on an empty Goal collection *)
InitStore ==
    /\ goals = {}
    /\ nextGoalId = 1
    /\ goalReqs = [h \in StoreHandlers |-> NoGoalReq]
    /\ storeRes = NoStoreRes

----------------------------------------------------------------------------
(* The browser: app.routes.ts, AuthGuard, NoAuthGuard, SessionService,      *)
(* VerifyComponent.onVerify and the logout of the application component     *)

(* export const routes *)
Routes ==
    <<[path |-> "",            redirectTo |-> "login", canActivate |-> "none"],
      [path |-> "login",       redirectTo |-> "",      canActivate |-> "NoAuthGuard"],
      [path |-> "register",    redirectTo |-> "",      canActivate |-> "NoAuthGuard"],
      [path |-> "verify",      redirectTo |-> "",      canActivate |-> "NoAuthGuard"],
      [path |-> "investment",  redirectTo |-> "",      canActivate |-> "AuthGuard"],
      [path |-> "goal",        redirectTo |-> "",      canActivate |-> "AuthGuard"],
      [path |-> "saved-goals", redirectTo |-> "",      canActivate |-> "none"]>>

(* the paths a visitor asks for; "nowhere" matches no route *)
Paths == {Routes[i].path : i \in DOMAIN Routes} \cup {"nowhere"}

(* SessionService.isLoggedIn(): !!localStorage.getItem('authToken') *)
IsLoggedIn(storage) == storage.authToken.stored /\ storage.authToken.text # ""

(* AuthGuard.canActivate() *)
AuthGuard(storage) ==
    IF IsLoggedIn(storage)
    THEN [activate |-> TRUE, navigate |-> ""]
    ELSE [activate |-> FALSE, navigate |-> "login"]

(* NoAuthGuard.canActivate() *)
NoAuthGuard(storage) ==
    IF IsLoggedIn(storage)
    THEN [activate |-> FALSE, navigate |-> "investment"]
    ELSE [activate |-> TRUE, navigate |-> ""]

(* the first route of the table that matches the path, 0 when none does *)
RouteIndex(table, path) ==
    IF \E i \in DOMAIN table : table[i].path = path
    THEN CHOOSE i \in DOMAIN table :
             table[i].path = path /\ \A j \in 1..(i - 1) : table[j].path # path
    ELSE 0

(* the router: the path activated by a navigation to path from current; a   *)
(* redirect and a navigation started by a guard are followed, a path that   *)
(* matches no route leaves the visitor where they are                      *)
RECURSIVE Activated(_, _, _, _)
Activated(table, storage, current, path) ==
    LET i == RouteIndex(table, path)
    IN  IF i = 0 THEN current
        ELSE IF table[i].redirectTo # ""
        THEN Activated(table, storage, current, table[i].redirectTo)
        ELSE LET verdict ==
                     CASE table[i].canActivate = "AuthGuard" -> AuthGuard(storage)
                       [] table[i].canActivate = "NoAuthGuard" -> NoAuthGuard(storage)
                       [] OTHER -> [activate |-> TRUE, navigate |-> ""]
             IN  IF verdict.activate THEN path
                 ELSE Activated(table, storage, current, verdict.navigate)

(* the visitor enters a path in the address bar or follows a link *)
Navigate(path) ==
    /\ url' = Activated(Routes, localStorage, url, path)
    /\ url' # url
    /\ UNCHANGED localStorage
    /\ UNCHANGED outsideFront

(* VerifyComponent.onVerify() when the server answers the code with 200:    *)
(* session.setSession('VALID', this.email), router.navigate(['/investment']) *)
OnVerify(email) ==
    /\ url = "verify"
    /\ localStorage' = [authToken |-> Item("VALID"), authEmail |-> Item(email)]
    /\ url' = Activated(Routes, localStorage', url, "investment")
    /\ UNCHANGED outsideFront

(* logout(): session.clearSession(), window.location.href = '/login' *)
Logout ==
    /\ IsLoggedIn(localStorage)
    /\ localStorage' = [authToken |-> NoItem, authEmail |-> NoItem]
    /\ url' = Activated(Routes, localStorage', "", "login")
    /\ UNCHANGED outsideFront

(* the page is opened at the base URL by a visitor without a session *)
InitFront ==
    /\ localStorage = [authToken |-> NoItem, authEmail |-> NoItem]
    /\ url = "login"

InitLimiter ==
    /\ clock = 0
    /\ ticks = 0
    /\ loginAttempts = << >>
    /\ ret = NoCall
    /\ admitted = [e \in Emails |-> <<>>]
    /\ refusals = [e \in Emails |-> 0]

(* calculateRequiredDeposit not called *)
InitGoalIdle ==
    /\ body = NoBody
    /\ goalPc = "done"
    /\ low = 0 /\ high = 0 /\ mid = Undefined
    /\ iterations = 0
    /\ finalProjection = <<>>
    /\ simulations = 0
    /\ goalRes = NoGoalRes

Init == InitLimiter /\ InitAuth /\ InitGoalIdle /\ InitStore /\ InitFront

Next ==
    \/ \E e \in Emails : CheckRateLimit(e)
    \/ \E d \in Deltas : Advance(d)

Spec == Init /\ [][Next]_vars

(* Date.now() is the wall clock: it is set back when the system time is     *)
(* corrected                                                                *)
StepBack(d) ==
    /\ ticks < MaxTicks
    /\ clock >= d
    /\ Tick(-d)

(* the limiter called directly while the wall clock steps both ways *)
SkewNext ==
    \/ \E e \in Emails : CheckRateLimit(e)
    \/ \E d \in SkewForward : Advance(d)
    \/ \E d \in SkewBackward : StepBack(d)

SpecSkew == Init /\ [][SkewNext]_vars

(* login and verify requests of two clients, a few logins *)
AuthNext ==
    \/ \E h \in Handlers, b \in LoginBodies :
          TotalAdmitted < MaxAuthLogins /\ LoginArrive(h, b.email, b.password)
    \/ \E h \in Handlers : LoginFound(h)
    \/ \E h \in Handlers : LoginCompared(h)
    \/ \E h \in Handlers : LoginSaved(h)
    \/ \E h \in Handlers, b \in VerifyBodies : VerifyArrive(h, b.email, b.code)
    \/ \E h \in Handlers : VerifyFound(h)
    \/ \E d \in AuthDeltas : AuthAdvance(d)

SpecAuth == Init /\ [][AuthNext]_vars

(* the goal ids of DELETE /api/goals/:id requests *)
GoalIds == 1..MaxGoals

StoreDeltas == {1000}

(* clients calling the goal database routes with headers of their making *)
StoreNext ==
    \/ \E h \in StoreHandlers, a \in ClientHeaders, b \in SaveBodies :
          GoalRouteArrive(h, "createGoal", a, b, 0)
    \/ \E h \in StoreHandlers, a \in ClientHeaders :
          GoalRouteArrive(h, "getGoals", a, SaveBody(JsUndefined, JsUndefined), 0)
    \/ \E h \in StoreHandlers, a \in ClientHeaders, id \in GoalIds :
          GoalRouteArrive(h, "deleteGoal", a, SaveBody(JsUndefined, JsUndefined), id)
    \/ \E h \in StoreHandlers : CreateSaved(h)
    \/ \E h \in StoreHandlers : GetFound(h)
    \/ \E h \in StoreHandlers : DeleteFound(h)
    \/ \E h \in StoreHandlers : DeleteDone(h)

SpecStore == Init /\ [][StoreNext]_vars

(* the requests the browser sends through GoalService *)
BrowserHandlers == {"g1"}

(* a visitor in the browser: navigation, verification, logout, and the      *)
(* requests of GoalService to the goal database routes, while time passes  *)
FrontNext ==
    \/ \E p \in Paths : Navigate(p)
    \/ \E e \in DOMAIN users : OnVerify(e)
    \/ Logout
    \/ \E h \in BrowserHandlers, b \in SaveBodies :
          GoalRouteArrive(h, "createGoal", GetAuthHeaders(localStorage), b, 0)
    \/ \E h \in BrowserHandlers :
          GoalRouteArrive(h, "getGoals", GetAuthHeaders(localStorage),
                          SaveBody(JsUndefined, JsUndefined), 0)
    \/ \E h \in BrowserHandlers, id \in GoalIds :
          GoalRouteArrive(h, "deleteGoal", GetAuthHeaders(localStorage),
                          SaveBody(JsUndefined, JsUndefined), id)
    \/ \E h \in BrowserHandlers : CreateSaved(h)
    \/ \E h \in BrowserHandlers : GetFound(h)
    \/ \E h \in BrowserHandlers : DeleteFound(h)
    \/ \E h \in BrowserHandlers : DeleteDone(h)
    \/ \E d \in StoreDeltas : StoreAdvance(d)

SpecFront == Init /\ [][FrontNext]_vars

(* many login requests for one identity, interleaved at their await points *)
LoginNext ==
    \/ \E h \in Handlers, p \in Passwords :
          TotalAdmitted < MaxLoginAdmitted /\ LoginArrive(h, "a@x", p)
    \/ \E h \in Handlers : LoginFound(h)
    \/ \E h \in Handlers : LoginCompared(h)
    \/ \E h \in Handlers : LoginSaved(h)
    \/ \E d \in LoginDeltas : AuthAdvance(d)

SpecLogin == Init /\ [][LoginNext]_vars

(* a client registers and logs in, over some TOTP windows *)
TotpInit == InitLimiter /\ InitRegister /\ InitGoalIdle /\ InitStore /\ InitFront

(* the requests of this client are handled one after the other *)
TotpHandlers == {"h1"}

TotpNext ==
    \/ \E h \in TotpHandlers : RegisterArrive(h, "a@x", "pw")
    \/ \E h \in TotpHandlers : RegisterFound(h)
    \/ \E h \in TotpHandlers, rawSecret \in RawSecrets : RegisterHashed(h, rawSecret)
    \/ \E h \in TotpHandlers : RegisterSaved(h)
    \/ \E h \in TotpHandlers :
          TotalAdmitted < MaxTotpLogins /\ LoginArrive(h, "a@x", "pw")
    \/ \E h \in TotpHandlers : LoginFound(h)
    \/ \E h \in TotpHandlers : LoginCompared(h)
    \/ \E h \in TotpHandlers : LoginSaved(h)
    \/ \E d \in TotpDeltas : TotpAdvance(d)

SpecTotp == TotpInit /\ [][TotpNext]_vars

GoalNext == Validate \/ LoopStep \/ Respond

(* a request to calculateRequiredDeposit, with the rest of the server idle *)
GoalInit == InitLimiter /\ InitAuth /\ InitGoal /\ InitStore /\ InitFront

SpecGoal == GoalInit /\ [][GoalNext]_vars

(* a request to calculateRequiredDeposit, computed on doubles *)
GoalDblInit == InitLimiter /\ InitAuth /\ InitGoalDbl /\ InitStore /\ InitFront

GoalDblNext == DblValidate \/ DblLoopStep \/ DblRespond

SpecGoalDbl == GoalDblInit /\ [][GoalDblNext]_vars

----------------------------------------------------------------------------
(* Claims about the attempt limiter, under Spec: checkRateLimit is called   *)
(* directly and the clock readings never decrease.                         *)

(* the record of an email before the map has an entry for it is empty *)
RecordOf(m, e) == IF e \in DOMAIN m THEN m[e] ELSE <<>>

(* how many of the timestamps of s lie in the 60 seconds up to now *)
InWindow(s, now) == Cardinality({i \in 1..Len(s) : now - s[i] <= WINDOW_MS})

(* C1: for one identity at most 5 admitted calls have clock readings inside *)
(* any span of 60 seconds: any 6 successive admissions of one identity      *)
(* spread over more than 60 seconds, an admitted call is one of at most 5   *)
(* in the 60 seconds up to it, and a call is refused only when 5 admitted   *)
(* calls lie in the 60 seconds up to it (calls 1 to 5 of a fresh identity   *)
(* are admitted, the 6th inside the window is refused).                     *)
C1_AtMostFivePerWindow ==
    /\ \A e \in Emails : \A i \in 1..Len(admitted[e]) :
          i + MAX_ATTEMPTS <= Len(admitted[e])
            => admitted[e][i + MAX_ATTEMPTS] - admitted[e][i] > WINDOW_MS
    /\ ret # NoCall =>
          IF ret.ok
          THEN InWindow(admitted[ret.email], ret.now) <= MAX_ATTEMPTS
          ELSE InWindow(admitted[ret.email], ret.now) = MAX_ATTEMPTS

(* the 6th call inside the window of 5 admitted calls was refused *)
C1_Witness ==
    /\ ret # NoCall /\ ~ret.ok
    /\ Len(admitted[ret.email]) = MAX_ATTEMPTS
    /\ ret.now - admitted[ret.email][1] = WINDOW_MS

(* C4: a call at clock reading now drops from the front of the record every *)
(* timestamp t with now - t > 60000, returns true exactly when fewer than 5 *)
(* remain, appends now when it returns true and nothing when it returns     *)
(* false.                                                                   *)
C4_CheckAndRecord ==
    [][\A e \in Emails : CheckRateLimit(e) =>
        LET old  == RecordOf(loginAttempts, e)
            kept == SelectSeq(old, LAMBDA t : ~(clock - t > WINDOW_MS))
        IN  /\ kept = SubSeq(old, Len(old) - Len(kept) + 1, Len(old))
            /\ ret'.ok = (Len(kept) < MAX_ATTEMPTS)
            /\ loginAttempts'[e] = IF ret'.ok THEN Append(kept, clock) ELSE kept
       ]_vars

(* a call that evicted several expired timestamps and then recorded itself *)
C4_Witness ==
    /\ ret # NoCall /\ ret.ok
    /\ Len(admitted[ret.email]) = MAX_ATTEMPTS + 1
    /\ loginAttempts[ret.email] = <<ret.now>>

(* C7: a call that returns false leaves the whole attempt map as it was *)
C7_RefusalLeavesMap ==
    [][\A e \in Emails : (CheckRateLimit(e) /\ ~ret'.ok) =>
          loginAttempts' = loginAttempts]_vars

(* a call refused after time has passed, at the very edge of the window *)
C7_Witness ==
    /\ ret # NoCall /\ ~ret.ok
    /\ ret.now = WINDOW_MS
    /\ Len(loginAttempts[ret.email]) = MAX_ATTEMPTS

(* the oldest timestamp of a non-empty record *)
Oldest(s) == CHOOSE t \in {s[i] : i \in 1..Len(s)} :
                \A i \in 1..Len(s) : t <= s[i]

(* C8: a call made more than 60 seconds after the oldest recorded attempt of *)
(* its identity returns true, however many calls were refused before it.     *)
C8_ReadmittedAfterWindow ==
    [][\A e \in Emails :
          (/\ CheckRateLimit(e)
           /\ Len(RecordOf(loginAttempts, e)) > 0
           /\ clock - Oldest(RecordOf(loginAttempts, e)) > WINDOW_MS)
          => ret'.ok]_vars

(* an identity refused twice, the second time at 60000 ms, admitted at 60001 *)
C8_Witness ==
    /\ ret # NoCall /\ ret.ok
    /\ ret.after = MaxRefusals
    /\ Len(admitted[ret.email]) = MAX_ATTEMPTS + 1
    /\ ret.now - admitted[ret.email][1] = WINDOW_MS + 1

----------------------------------------------------------------------------
(* Claims about the request handlers *)

C5_DecisionAndRecordingAtomic ==
    [][/\ \A h \in Handlers, p \in Passwords :
            (LoginArrive(h, "a@x", p) /\ handlers'[h].limited) =>
               /\ Len(Evict(RecordOf(loginAttempts, "a@x"), clock)) < MAX_ATTEMPTS
               /\ loginAttempts'["a@x"]
                    = Append(Evict(RecordOf(loginAttempts, "a@x"), clock), clock)
       /\ \A i \in 1..Len(admitted'["a@x"]) :
            i + MAX_ATTEMPTS <= Len(admitted'["a@x"])
              => admitted'["a@x"][i + MAX_ATTEMPTS] - admitted'["a@x"][i] > WINDOW_MS
      ]_vars

(* a 6th request is refused while an admitted one waits at an await *)
C5_Witness ==
    /\ resp.kind = "login" /\ resp.status = 429
    /\ ret.email = "a@x" /\ ~ret.ok /\ ret.now = clock
    /\ \E h \in Handlers : handlers[h].kind = "login" /\ handlers[h].limited
    /\ Len(admitted["a@x"]) = MAX_ATTEMPTS
    /\ InWindow(admitted["a@x"], clock) = MAX_ATTEMPTS

(* C6: every credential check, the password comparison of loginUser and    *)
(* the code comparison of verifyCode, is made for a request whose identity  *)
(* checkRateLimit has admitted; a refused request is answered 429 with no   *)
(* comparison.  Checked under SpecAuth.                                     *)
C6_LimiterBeforeCredentialCheck ==
    /\ \A h \in Handlers : handlers[h].compared => handlers[h].limited
    /\ resp.compared => resp.limited
    /\ resp.status = 429 => ~resp.compared

----------------------------------------------------------------------------
(* calculateRequiredDeposit: the claims, checked under SpecGoal *)

(* the final balance of simulateInvestment with a deposit of dep hundredths *)
(* is below the goal of the request                                         *)
BelowGoal(dep) ==
    BalanceBelow(dep, 0, MonthlyRate(rate.v), totalMonths.v, goal.v)

(* C2: for every input that passes validation, the requiredDeposit of the   *)
(* response reaches the goal: simulating the months of the request with     *)
(* that deposit gives a final balance >= goalAmount.                        *)
C2_DepositReachesGoal ==
    (goalPc = "done" /\ goalRes.status = 200)
        => ~BelowGoal(goalRes.requiredDeposit)

(* C9: for every input that passes validation, the requiredDeposit of the   *)
(* response is minimal within the tolerance: simulating with                *)
(* requiredDeposit - 0.01 gives a final balance strictly below goalAmount.  *)
C9_DepositMinimalWithinTolerance ==
    (goalPc = "done" /\ goalRes.status = 200)
        => BelowGoal(goalRes.requiredDeposit - 1)

(* a request that the contract calls invalid: goalAmount not > 0, months    *)
(* not a positive integer, annualRate < 0, or one of them missing or not a  *)
(* number                                                                   *)
InvalidRequest ==
    \/ body.goalAmount.t # "number" \/ body.goalAmount.v <= 0
    \/ body.months.t # "number" \/ body.months.v <= 0
    \/ body.months.v % 100 # 0
    \/ body.annualRate.t # "number" \/ body.annualRate.v < 0

(* C10: every invalid request is rejected with an error response before    *)
(* any simulation runs: the search is never entered, simulateInvestment is  *)
(* never called, and the response is a 400.                                 *)
C10_InvalidRejectedBeforeSimulation ==
    InvalidRequest =>
        /\ goalPc # "loop"
        /\ simulations = 0
        /\ goalPc = "done" => goalRes.status = 400

(* a request that the contract calls valid: goalAmount > 0, months a        *)
(* positive integer, annualRate >= 0, all three numbers                     *)
ValidRequest ==
    /\ body.goalAmount.t = "number" /\ body.goalAmount.v > 0
    /\ body.months.t = "number" /\ body.months.v > 0
    /\ body.months.v % 100 = 0
    /\ body.annualRate.t = "number" /\ body.annualRate.v >= 0

(* C11: every valid request, also one with a goalAmount of 0.01 or less,   *)
(* is answered 200 with a deposit result and never with an error response.  *)
C11_ValidRequestAnswered200 ==
    (ValidRequest /\ goalPc = "done") => goalRes.status = 200

(* C13: the projection of a 200 response has exactly `months` entries,     *)
(* with the month numbers 1, 2, ..., months in that order.                  *)
C13_ProjectionHasMonthsEntries ==
    (goalPc = "done" /\ goalRes.status = 200) =>
        /\ 100 * Len(goalRes.projection) = totalMonths.v
        /\ \A i \in 1..Len(goalRes.projection) :
              goalRes.projection[i].month = i

(* C14: when annualRate is 0 the simulated final balance is deposit *      *)
(* months, and the requiredDeposit of the response is within 0.01 of        *)
(* goalAmount / months.                                                     *)
C14_FlatRateDepositNearQuotient ==
    (ValidRequest /\ rate.v = 0 /\ goalPc = "done" /\ goalRes.status = 200) =>
        /\ SimNum(goalRes.requiredDeposit, MonthlyRate(0), LoopCount(totalMonths.v))
             = goalRes.requiredDeposit * LoopCount(totalMonths.v)
        /\ goalRes.requiredDeposit * LoopCount(totalMonths.v) - goal.v
             <= LoopCount(totalMonths.v)
        /\ goal.v - goalRes.requiredDeposit * LoopCount(totalMonths.v)
             <= LoopCount(totalMonths.v)

----------------------------------------------------------------------------
(* calculateRequiredDeposit on doubles: the claims, checked under           *)
(* SpecGoalDbl                                                              *)

(* C12: the binary search ends for every input that passes validation.     *)
(* The loop is deterministic and its test reads only low and high, and each *)
(* iteration moves one of them to mid; so the search ends exactly when no   *)
(* iteration leaves low and high as they were, and that is what is stated:  *)
(* every iteration raises low or lowers high.  (The code has no cap on the  *)
(* number of iterations that would end the search otherwise.)               *)
C12_SearchEnds ==
    [][DblLoopStep => (DblLess(low, low') \/ DblLess(high', high))]_vars

(* C15: for fixed months and annualRate a larger goalAmount never yields a  *)
(* smaller requiredDeposit: the deposit of an answered request is not below *)
(* the deposit of any request with the same months and annualRate and a     *)
(* smaller goalAmount.  The requests compared with are those of TieBodies.  *)
C15_MonotoneInGoal ==
    (goalPc = "done" /\ goalRes.status = 200) =>
        \A other \in TieBodies :
            (/\ other.months = body.months
             /\ other.annualRate = body.annualRate
             /\ DblLess(other.goalAmount.v, body.goalAmount.v))
            => ~BitsLess(goalRes.requiredDeposit, DblRequiredDeposit(other))

----------------------------------------------------------------------------
(* Claims about generateTOTP and the stored secret, under SpecTotp: a       *)
(* client registers, then logs in at several clock readings.                *)

(* the logins whose code is in the state: the login waiting for user.save   *)
(* and the login answered last, each with the secret, the clock reading of  *)
(* its generateTOTP call and the code it got                                *)
IssuedLogins ==
    {[secret |-> handlers[h].user.totpSecret, at |-> handlers[h].at,
      code |-> handlers[h].user.lastIssuedCode] :
        h \in {x \in Handlers : handlers[x].kind = "login" /\ handlers[x].pc = "save"}}
    \cup
    {[secret |-> users[resp.email].totpSecret, at |-> resp.at, code |-> resp.issued] :
        r \in {x \in {resp} : x.kind = "login" /\ x.status = 200}}

IsSixDigits(s) == Len(s) = 6 /\ \A i \in 1..Len(s) : s[i] \in 0..9

(* C16: generateTOTP returns a string of exactly 6 decimal digits,         *)
(* left-padded with zeros: every code a login got and every code stored in  *)
(* a user document has 6 digits, and the value 42 is written 000042.        *)
C16_CodeHasSixDigits ==
    /\ \A l \in IssuedLogins : IsSixDigits(l.code)
    /\ \A e \in DOMAIN users :
          users[e].lastIssuedCode # <<>> => IsSixDigits(users[e].lastIssuedCode)
    /\ PadStart(ToDigits(42), 6) = <<0, 0, 0, 0, 4, 2>>

(* a login was answered with a code whose value has fewer than 6 digits *)
C16_Witness ==
    /\ resp.kind = "login" /\ resp.status = 200
    /\ resp.issued[1] = 0
    /\ DigitsValue(resp.issued) < 100000

(* two clock readings of one 30-second window *)
SameWindow(t1, t2) == t1 \div (timeStep * 1000) = t2 \div (timeStep * 1000)

(* C17: generateTOTP depends on the time only through                       *)
(* counter = floor(epochSeconds / 30): two calls with the same secret at    *)
(* clock readings of the same 30-second window return the same code, and    *)
(* the counter of a later call is never below the counter of an earlier     *)
(* one, nor the counter of the present above it.                            *)
C17_SameWindowSameCode ==
    /\ \A a, b \in IssuedLogins :
          (a.secret = b.secret /\ SameWindow(a.at, b.at)) => a.code = b.code
    /\ \A a, b \in IssuedLogins :
          a.at <= b.at => Counter(a.at) <= Counter(b.at)
    /\ \A a \in IssuedLogins : Counter(a.at) <= Counter(clock)

(* two logins of one user got their codes at different clock readings of    *)
(* one window, and the clock has since reached the next window              *)
C17_Witness ==
    /\ \E a, b \in IssuedLogins :
          a.secret = b.secret /\ a.at < b.at /\ SameWindow(a.at, b.at)
    /\ \E a \in IssuedLogins : ~SameWindow(a.at, clock)

----------------------------------------------------------------------------
(* Claims of the README about verifyCode, under SpecAuth                    *)

(* C18: MFA verification tolerates clock drift: a code that generateTOTP    *)
(* produced in the 30-second window just before the one of the comparison   *)
(* is accepted by verifyCode.                                               *)
C18_PreviousWindowAccepted ==
    (/\ resp.kind = "verify" /\ resp.email \in DOMAIN users
     /\ Counter(resp.at) >= 1
     /\ StringOf(resp.code)
          = TotpAt(users[resp.email].totpSecret, Counter(resp.at) - 1))
    => resp.status = 200

(* C19: verifyCode compares the submitted code with the expected code in    *)
(* constant time: the comparison does the same work wherever the first      *)
(* differing character is.  Whatever code of 6 digits is submitted in the   *)
(* place of the one verifyCode has just compared, right in all digits but   *)
(* one, the comparison reads as many characters as it did.                  *)
C19_ComparisonWorkConstant ==
    (resp.kind = "verify" /\ resp.compared /\ Len(StringOf(resp.code)) = 6) =>
        \A guess \in NearMisses(GenerateTOTP(users[resp.email].totpSecret, resp.at)) :
            CompareWork(guess, GenerateTOTP(users[resp.email].totpSecret, resp.at))
              = CompareWork(StringOf(resp.code),
                            GenerateTOTP(users[resp.email].totpSecret, resp.at))

(* the registrations whose secret is in the state: registerUser has         *)
(* generated and encoded it and waits for user.save                         *)
PendingRegistrations ==
    {handlers[h] :
        h \in {x \in Handlers : handlers[x].kind = "register" /\ handlers[x].pc = "save"}}

(* C20: for every 20-byte secret, decoding the BASE32 text that             *)
(* registerUser stores, padding removed, gives back the same 20 bytes, so   *)
(* generateTOTP keys the HMAC with the secret that registration generated.  *)
C20_StoredSecretDecodesToRaw ==
    \A l \in PendingRegistrations :
        /\ Len(l.rawSecret) = 20
        /\ Base32Decode(l.user.totpSecret) = l.rawSecret
        /\ \A t \in {0, clock} :
              GenerateTOTP(l.user.totpSecret, t)
                = PadStart(ToDigits(TruncBinary(HmacDigest(l.rawSecret, Counter(t)))
                                      % 1000000), 6)

(* a registration holds a secret of 20 bytes, not all the same, and its     *)
(* text of 32 characters                                                    *)
C20_Witness ==
    \E l \in PendingRegistrations :
        /\ Len(l.rawSecret) = 20 /\ l.rawSecret[1] # l.rawSecret[20]
        /\ Len(l.user.totpSecret) = 32
        /\ l.user.totpSecret # Base32Encode(<<>>)

----------------------------------------------------------------------------
(* Claims about the attempt limiter when the clock readings of successive   *)
(* calls need not grow, under SpecSkew                                      *)

(* C26: after checkRateLimit returns, no timestamp kept for that identity   *)
(* is more than 60 seconds older than the clock reading of the call, also   *)
(* when the clock stepped backwards between calls.                          *)
C26_NoExpiredTimestampKept ==
    ret # NoCall =>
        \A i \in 1..Len(RecordOf(loginAttempts, ret.email)) :
            ret.now - RecordOf(loginAttempts, ret.email)[i] <= WINDOW_MS

----------------------------------------------------------------------------
(* Further claims about the attempt limiter, under Spec                     *)

(* C27: after any sequence of checkRateLimit calls with non-decreasing      *)
(* clock readings the record of every identity holds at most 5 timestamps   *)
(* and they are in non-decreasing order.                                    *)
C27_RecordBoundedAndOrdered ==
    \A e \in DOMAIN loginAttempts :
        /\ Len(loginAttempts[e]) <= MAX_ATTEMPTS
        /\ \A i, j \in 1..Len(loginAttempts[e]) :
              i <= j => loginAttempts[e][i] <= loginAttempts[e][j]

(* a call was refused on a record of 5 timestamps that are not all equal *)
C27_Witness ==
    /\ ret # NoCall /\ ~ret.ok
    /\ Len(RecordOf(loginAttempts, ret.email)) = MAX_ATTEMPTS
    /\ loginAttempts[ret.email][1] < loginAttempts[ret.email][MAX_ATTEMPTS]

(* C28: identities do not interfere: a checkRateLimit call for one identity *)
(* changes neither the timestamps recorded for any other identity nor the   *)
(* result of that other identity's next call, at the same clock reading or  *)
(* a later one.                                                             *)
C28_IdentitiesIndependent ==
    [][\A e \in Emails :
          CheckRateLimit(e) =>
              \A o \in Emails \ {e} :
                  /\ RecordOf(loginAttempts', o) = RecordOf(loginAttempts, o)
                  /\ \A t \in {clock} \cup {clock + d : d \in Deltas} :
                        LimiterRet(loginAttempts', o, t)
                          = LimiterRet(loginAttempts, o, t)]_vars

(* an identity was admitted while another one has a full record and would   *)
(* be refused                                                               *)
C28_Witness ==
    /\ ret # NoCall /\ ret.ok
    /\ \E o \in Emails \ {ret.email} :
          /\ Len(RecordOf(loginAttempts, o)) = MAX_ATTEMPTS
          /\ ~LimiterRet(loginAttempts, o, clock)

----------------------------------------------------------------------------
(* Further claims about generateTOTP, under SpecTotp                        *)

(* the digest generateTOTP computed for the login that was answered last *)
AnsweredDigest == HmacDigest(Base32Decode(users[resp.email].totpSecret), Counter(resp.at))

(* C29: in the dynamic truncation the offset is in 0..15, so the four bytes *)
(* at offset..offset+3 lie inside the 20-byte digest; the truncated value   *)
(* is in 0..2^31-1 and the value of the code is in 0..999999.               *)
C29_TruncationInRange ==
    (resp.kind = "login" /\ resp.status = 200) =>
        LET digest == AnsweredDigest
            offset == TruncOffset(digest)
            binary == TruncBinary(digest)
        IN  /\ Len(digest) = 20
            /\ offset \in 0..15
            /\ {offset + 1, offset + 4} \subseteq DOMAIN digest
            /\ binary \in 0..2147483647
            /\ DigitsValue(resp.issued) \in 0..999999
            /\ DigitsValue(resp.issued) = binary % 1000000

(* a login was answered with a code from a digest whose byte at the offset  *)
(* has its top bit set                                                      *)
C29_Witness ==
    /\ resp.kind = "login" /\ resp.status = 200
    /\ AnsweredDigest[TruncOffset(AnsweredDigest) + 1] >= 128

----------------------------------------------------------------------------
(* Claims about the order of login and verification, under SpecAuth         *)

(* C21: verifyCode answers "Login successful" for an email only if a        *)
(* loginUser request for the same email succeeded before (admitted by the   *)
(* limiter, password correct).  loginUser is the only writer of             *)
(* lastIssuedCode, and it writes it exactly when it succeeds.               *)
C21_VerifyOnlyAfterLogin ==
    (resp.kind = "verify" /\ resp.status = 200) =>
        /\ users[resp.email].lastIssuedCode # <<>>
        /\ admitted[resp.email] # <<>>

----------------------------------------------------------------------------
(* Claims about the goal database routes, under SpecStore                   *)

(* the user has been answered a login: loginUser stored the code it issued *)
LoggedInOnce(email) ==
    /\ email \in DOMAIN users
    /\ users[email].lastIssuedCode # <<>>

(* C22: the token is validated on every protected goal route: the identity  *)
(* the goal controllers act on (req.userId set by verifyToken) is always    *)
(* the email of a user who completed login and verification, and a request  *)
(* whose Authorization header a client made up is answered 401 and never    *)
(* reaches createGoal, getGoals or deleteGoal.                              *)
C22_ControllersActForAuthenticated ==
    /\ \A h \in StoreHandlers :
          goalReqs[h].pc # "idle" => LoggedInOnce(goalReqs[h].userId)
    /\ storeRes.status \in {200, 201, 400, 404, 500} => LoggedInOnce(storeRes.userId)


(* C23: goal data is isolated per user: getGoals returns only goals whose   *)
(* userId equals the request's userId, and deleteGoal removes a goal only   *)
(* when its userId equals the request's userId; a delete request for a      *)
(* goal of another user answers 404 and leaves the stored goals unchanged.  *)
C23_GoalsIsolatedPerUser ==
    [][/\ (storeRes' # storeRes /\ storeRes'.route = "getGoals"
              /\ storeRes'.status = 200) =>
            \A i \in DOMAIN storeRes'.goals :
                /\ storeRes'.goals[i].userId = storeRes'.userId
                /\ storeRes'.goals[i] \in goals
       /\ \A g \in goals \ goals' :
            \E h \in StoreHandlers :
                /\ goalReqs[h].pc = "deleteOne" /\ goalReqs'[h] = NoGoalReq
                /\ goalReqs[h].goalId = g.id
                /\ goalReqs[h].userId = g.userId
       /\ \A h \in StoreHandlers :
            (/\ goalReqs[h].pc = "findOne" /\ goalReqs'[h] # goalReqs[h]
             /\ \E g \in goals : /\ g.id = goalReqs[h].goalId
                                 /\ g.userId # goalReqs[h].userId) =>
                /\ storeRes'.route = "deleteGoal" /\ storeRes'.status = 404
                /\ goalReqs'[h] = NoGoalReq
                /\ goals' = goals
      ]_vars

(* a delete request for a stored goal of another user was answered 404, the *)
(* goal is still stored, and the other user has more than that goal        *)
C23_Witness ==
    /\ storeRes.route = "deleteGoal" /\ storeRes.status = 404
    /\ \E g \in goals : g.id = storeRes.goalId /\ g.userId # storeRes.userId
    /\ \E g \in goals : g.userId = storeRes.userId

----------------------------------------------------------------------------
(* Claims about the routes of the browser application, under SpecFront      *)

(* C24: every frontend route other than login, register and verify is       *)
(* protected by AuthGuard: it is activated only while a session token is    *)
(* stored, and an unauthenticated visitor is redirected to /login instead.  *)
C24_OtherRoutesNeedSession ==
    url \notin {"login", "register", "verify"} => IsLoggedIn(localStorage)

----------------------------------------------------------------------------
(* Further claims about the binary search, under SpecGoal                   *)

(* simulateInvestment(x).balance < goal for x = num / 2^iterations *)
SimulatedBelow(num) ==
    BalanceBelow(num, iterations, MonthlyRate(rate.v), totalMonths.v, goal.v)

(* the search has been entered: in the loop, or answered after it *)
Searching ==
    \/ goalPc = "loop"
    \/ goalPc = "done" /\ goalRes.status \in {200, 500}

(* C25: the binary search keeps its loop invariant: before the first        *)
(* iteration, after every iteration and at exit,                            *)
(* simulate(low) < goalAmount <= simulate(high), for every input that       *)
(* passes validation.                                                       *)
C25_LoopInvariant ==
    Searching => (SimulatedBelow(low) /\ ~SimulatedBelow(high))


(* x / 2^n on doubles: exact *)
DblOverPow2(x, n) == [m |-> x.m, e |-> x.e - n]

(* the least n with x / 2^n <= 0.01 *)
LeastHalvings(x) ==
    CHOOSE n \in 0..MaxIterations :
        /\ ~DblLess(Tolerance, DblOverPow2(x, n))
        /\ \A k \in 0..(n - 1) : DblLess(Tolerance, DblOverPow2(x, k))

(* C30: the iteration count returned by calculateRequiredDeposit depends    *)
(* only on goalAmount: every iteration halves high - low, so the count      *)
(* equals the least n with goalAmount / 2^n <= 0.01, whatever months and    *)
(* annualRate are.  Checked under SpecGoalDbl.                              *)
C30_IterationsFromGoalAlone ==
    (goalPc = "done" /\ goalRes.status = 200) =>
        goalRes.iterations = LeastHalvings(goal.v)

=============================================================================
